---- MODULE Spec2Model ----
(***************************************************************************)
(* MailScout: the webhook notifier (src/src/services/webhook_service.py),   *)
(* the extraction rules (src/src/models/email_filter.py) and the filter     *)
(* pipeline (src/src/services/gmail_service.py).                           *)
(*                                                                         *)
(* WebhookService.notify is a coroutine: it checks the subscription's      *)
(* preconditions, then loops over HTTP attempts with an exponential        *)
(* backoff sleep between failed attempts.  notify_webhooks creates one     *)
(* asyncio task per subscription and then awaits the tasks in list order.  *)
(* Every suspension point of a coroutine (the HTTP call, the sleep, the    *)
(* await of a task) is a point where the event loop may run another task,  *)
(* so each is the boundary of an action here.                              *)
(***************************************************************************)
EXTENDS Integers, Sequences, FiniteSets, TLC

VARIABLES
    max_retries,   \* WebhookService._max_retries
    retry_delay,   \* WebhookService._retry_delay (seconds)
    webhooks,      \* the subscriptions of the call, a sequence of WebhookConfig
    event_type,    \* the event type of the call
    task,          \* one record per running notify coroutine, in list order
    fan,           \* the notify_webhooks coroutine: pc, tasks awaited, results
    data,          \* the data argument of the call
    now,           \* what int(time.time()) returns during the call
    rules,         \* DataExtractionRule instances, with _compiled_pattern
    call,          \* the latest call on a rule: its arguments and outcome
    seen,          \* the results of the calls made so far, by arguments
    content_patterns,  \* EmailFilter.content_patterns
    emails,        \* the emails process_filter fetched, in order
    pf,            \* process_filter: position, extracted_data, results
    adapter,       \* a transaction adapter and the mapping given to process
    store,         \* the JSON email storage: files, bulk file, latest call
    bg             \* process_filter_background: position and what it did

\* The variables of the adapter, the storage and the background task.
storage_vars == <<adapter, store, bg>>

\* The variables the webhook notifier does not touch.
nonwebhook ==
    <<rules, call, seen, content_patterns, emails, pf, adapter, store, bg>>

\* The variables of the webhook notifier.
webhook_vars ==
    <<max_retries, retry_delay, webhooks, event_type, task, fan, data, now>>

vars == <<max_retries, retry_delay, webhooks, event_type, task, fan, data,
          now, rules, call, seen, content_patterns, emails, pf, adapter,
          store, bg>>

----------------------------------------------------------------------------
(* Program constants *)

DefaultRetryDelay == 5

DefaultMaxRetries == 3

TestMaxRetries == 2

(* Bounds of the model *)

MaxWebhooks == 2

----------------------------------------------------------------------------
(* Data *)

EMAIL_PROCESSED == "email_processed"
FILTER_UPDATED == "filter_updated"
ALL == "all"

WebhookEventType == {EMAIL_PROCESSED, FILTER_UPDATED, ALL}

\* Python's None.
None == "None"

\* A WebhookConfig, reduced to the fields notify reads; secret keeps its
\* default, None.
WebhookConfig(id, active, types) ==
    [id |-> id, is_active |-> active, event_types |-> types, secret |-> None]

\* A WebhookConfig with a secret: None, the empty string or a key.
SecretConfig(id, active, types, secret) ==
    [id |-> id, is_active |-> active, event_types |-> types,
     secret |-> secret]

Secrets == {None, "", "s3cr3t"}

\* HTTP status codes an endpoint may answer with, on both sides of each end
\* of the 2xx range.
Statuses == {199, 200, 204, 299, 300, 404, 500}

\* Exceptions client.post may raise: a transport failure, and the
\* per-request timeout (httpx.AsyncClient(timeout=30.0)).  Both derive from
\* Exception.
ConnectError == "httpx.ConnectError"
TimeoutException == "httpx.TimeoutException"
\* What asyncio throws into a coroutine whose enclosing timeout expired; from
\* Python 3.8 (setup.py: python_requires >= 3.8) it derives from BaseException
\* and not from Exception.
CancelledError == "asyncio.CancelledError"

\* The exception classes above that derive from Exception.
DerivesFromException == {ConnectError, TimeoutException}

\* What one HTTP attempt can end in: a response with a status code, or an
\* exception raised out of client.post.
Response(status) == [kind |-> "response", status |-> status, exc |-> "none"]

Raise(exc) == [kind |-> "exception", status |-> 0, exc |-> exc]

Outcomes ==
    {Response(s) : s \in Statuses}
        \cup {Raise(e) : e \in {ConnectError, TimeoutException}}

\* 2 ^ n
RECURSIVE Pow2(_)
Pow2(n) == IF n <= 0 THEN 1 ELSE 2 * Pow2(n - 1)

----------------------------------------------------------------------------
(* WebhookService.generate_signature and the payload *)

\* hmac.new(secret, payload, sha256).hexdigest(): a digest that determines
\* its key and its message (no collisions); the empty tuple is the empty
\* string.
HmacSha256(secret, payload) == <<"hmac-sha256", secret, payload>>

GenerateSignatureUnguarded(payload, secret) == HmacSha256(secret, payload)

\* Lines 46-51: the empty string without a secret, else the digest.
GenerateSignature(payload, secret) ==
    IF secret = "" THEN <<>> ELSE HmacSha256(secret, payload)

\* Line 93: webhook.secret or "".
OrEmpty(secret) == IF secret = None THEN "" ELSE secret

\* Lines 86-90: the payload of the call.
Payload(ev, ts, d) == [event |-> ev, timestamp |-> ts, data |-> d]

\* Line 92: json.dumps(payload): the members in insertion order.
JsonDumps(payload) ==
    <<"json", <<"event", payload.event>>, <<"timestamp", payload.timestamp>>,
      <<"data", payload.data>>>>

\* What a receiver reads as the event member of a body.
EventOf(body) == body[2][2]

\* Lines 95-99 and 106-108: the request of one attempt.
Request(body, signature) == [content |-> body, signature |-> signature]

----------------------------------------------------------------------------
(* WebhookService.notify, its decisions *)

PreconditionsPassIgnoringActive(w, ev) ==
    ev \in w.event_types \/ ALL \in w.event_types

\* Lines 72-83: the two early returns.
PreconditionsPass(w, ev) ==
    /\ w.is_active
    /\ ~(ev \notin w.event_types /\ ALL \notin w.event_types)

\* Line 103: the loop bound, self._max_retries if retry else 0.
LoopLimit(retry, maxr) == IF retry THEN maxr ELSE 0

IsSuccessOnly200(status) == status = 200

\* Line 110: 200 <= response.status_code < 300.
IsSuccess(status) == 200 <= status /\ status < 300

GiveUpOneEarly(retry, attempt, maxr) == ~retry \/ attempt + 1 >= maxr

\* Lines 120 and 124: if not retry or attempt >= self._max_retries.
GiveUp(retry, attempt, maxr) == ~retry \/ attempt >= maxr

BackoffLinear(delay, attempt) == delay * attempt

\* Line 130: self._retry_delay * (2 ** (attempt - 1)).
Backoff(delay, attempt) == delay * Pow2(attempt - 1)

SleepNotAwaited(attempt, maxr) == "pending"

\* Lines 129-130: the sleep is awaited when attempt <= max_retries; otherwise
\* control goes straight back to the loop head.
AfterIncrement(attempt, maxr) ==
    IF attempt <= maxr THEN "retry_wait" ELSE "pending"

CatchesNothing(exc) == FALSE

\* Line 122: except Exception.
ExceptCatches(exc) == exc \in DerivesFromException

\* How the outcome of an attempt is remembered in task[i].last.
OutcomeClass(o) ==
    IF o.kind = "response"
    THEN (IF 200 <= o.status /\ o.status <= 299 THEN "2xx" ELSE "failed")
    ELSE (IF o.exc = TimeoutException THEN "timeout"
          ELSE IF o.exc = CancelledError THEN "cancelled" ELSE "failed")

\* A notify coroutine that has been called (or wrapped in a task) and has
\* not run yet.
NewTask(retry) ==
    [pc |-> "created", retry |-> retry, attempt |-> 0, posts |-> 0,
     responses |-> 0, sleeps |-> <<>>, wakes |-> 0, last |-> "none",
     result |-> "None", payload_json |-> <<>>, signature |-> <<>>,
     sent |-> {}]

Terminal(t) == t.pc \in {"sent", "failed", "raised"}

----------------------------------------------------------------------------
(* WebhookService.notify, its steps *)

\* Lines 72-102: the early returns, then the payload, its serialisation and
\* its signature, and attempt = 0.
Start(i) ==
    /\ i \in DOMAIN task
    /\ task[i].pc = "created"
    /\ task' = [task EXCEPT ![i] =
                  IF PreconditionsPass(webhooks[i], event_type)
                  THEN LET body == JsonDumps(Payload(event_type, now, data)) IN
                       [@ EXCEPT !.pc = "pending", !.attempt = 0,
                                 !.payload_json = body,
                                 !.signature =
                                     GenerateSignature(
                                         body, OrEmpty(webhooks[i].secret))]
                  ELSE [@ EXCEPT !.pc = "failed", !.result = "False"]]
    /\ UNCHANGED <<max_retries, retry_delay, webhooks, event_type, fan, data,
                   now, nonwebhook>>

\* Lines 103-108: the loop test, and the request when it passes; line 132
\* when it does not.
IssueRequest(i) ==
    /\ i \in DOMAIN task
    /\ task[i].pc = "pending"
    /\ task' = [task EXCEPT ![i] =
                  IF @.attempt <= LoopLimit(@.retry, max_retries)
                  THEN [@ EXCEPT !.pc = "in_flight", !.posts = @ + 1,
                                 !.sent = @ \cup {Request(task[i].payload_json,
                                                          task[i].signature)}]
                  ELSE [@ EXCEPT !.pc = "failed", !.result = "False"]]
    /\ UNCHANGED <<max_retries, retry_delay, webhooks, event_type, fan, data,
                   now, nonwebhook>>

\* Lines 127-130 after a failed attempt that is retried.
Retry(t) ==
    LET a == t.attempt + 1 IN
    [t EXCEPT !.attempt = a,
              !.pc = AfterIncrement(a, max_retries),
              !.sleeps = IF a <= max_retries
                         THEN Append(@, Backoff(retry_delay, a)) ELSE @]

\* Lines 115-125: a failed attempt, in the else branch and in the handler.
Failed(t) ==
    IF GiveUp(t.retry, t.attempt, max_retries)
    THEN [t EXCEPT !.pc = "failed", !.result = "False"]
    ELSE Retry(t)

\* Lines 106-125: the outcome of the request reaches the coroutine.
Outcome(t, o) ==
    LET u == [t EXCEPT !.responses = @ + 1, !.last = OutcomeClass(o)] IN
    IF o.kind = "response"
    THEN (IF IsSuccess(o.status)
          THEN [u EXCEPT !.pc = "sent", !.result = "True"]
          ELSE Failed(u))
    ELSE (IF ExceptCatches(o.exc)
          THEN Failed(u)
          ELSE [u EXCEPT !.pc = "raised"])

Respond(i, o) ==
    /\ i \in DOMAIN task
    /\ task[i].pc = "in_flight"
    /\ task' = [task EXCEPT ![i] = Outcome(@, o)]
    /\ UNCHANGED <<max_retries, retry_delay, webhooks, event_type, fan, data,
                   now, nonwebhook>>

\* Line 130: asyncio.sleep returns.
WakeUp(i) ==
    /\ i \in DOMAIN task
    /\ task[i].pc = "retry_wait"
    /\ task' = [task EXCEPT ![i] = [@ EXCEPT !.pc = "pending", !.wakes = @ + 1]]
    /\ UNCHANGED <<max_retries, retry_delay, webhooks, event_type, fan, data,
                   now, nonwebhook>>

----------------------------------------------------------------------------
(* WebhookService.notify_webhooks *)

CreateTasksSequential ==
    /\ fan.pc \in {"called", "awaiting"}
    /\ Len(task) < Len(webhooks)
    /\ Len(task) = fan.idx
    /\ task' = Append(task, NewTask(TRUE))
    /\ fan' = [fan EXCEPT !.pc = "awaiting"]
    /\ UNCHANGED <<max_retries, retry_delay, webhooks, event_type, data, now,
                   nonwebhook>>

\* Lines 151-159: the empty list returns {} at once; otherwise one task per
\* subscription is created (retry keeps its default, True).  The loop has no
\* suspension point, so no task runs before all of them exist.
CreateTasks ==
    /\ fan.pc = "called"
    /\ IF webhooks = <<>>
       THEN /\ fan' = [fan EXCEPT !.pc = "returned"]
            /\ task' = task
       ELSE /\ task' = [i \in 1..Len(webhooks) |-> NewTask(TRUE)]
            /\ fan' = [fan EXCEPT !.pc = "awaiting"]
    /\ UNCHANGED <<max_retries, retry_delay, webhooks, event_type, data, now,
                   nonwebhook>>

AwaitReadyAlways(t) == TRUE

\* Line 162: await task resumes once the task is done.
AwaitReady(t) == Terminal(t)

StoreOnlySuccess(results, id, success) ==
    IF success = "True" THEN (id :> success) @@ results ELSE results

\* Line 163: results[webhook_id] = success.
StoreResult(results, id, success) == (id :> success) @@ results

\* Lines 161-165: the next task in list order is done; its value is stored,
\* or its exception leaves notify_webhooks; after the last one the map is
\* returned.
AwaitTask ==
    /\ fan.pc = "awaiting"
    /\ fan.idx + 1 \in DOMAIN task
    /\ LET k == fan.idx + 1 IN
       /\ AwaitReady(task[k])
       /\ fan' = IF task[k].pc = "raised"
                 THEN [fan EXCEPT !.pc = "raised"]
                 ELSE [fan EXCEPT
                         !.idx = k,
                         !.results = StoreResult(@, webhooks[k].id,
                                                 task[k].result),
                         !.pc = IF k = Len(webhooks)
                                THEN "returned" ELSE "awaiting"]
    /\ UNCHANGED <<max_retries, retry_delay, webhooks, event_type, task, data,
                   now, nonwebhook>>

\* A timeout that encloses the notify_webhooks call (the caller's
\* asyncio.wait_for) expires while the awaited delivery has a request in
\* flight: the coroutine is cancelled at line 162, which cancels the task it
\* awaits, and CancelledError is thrown into that task at line 106, inside
\* the try of lines 104-125.
EnclosingTimeout ==
    /\ fan.pc = "awaiting"
    /\ fan.idx + 1 \in DOMAIN task
    /\ task[fan.idx + 1].pc = "in_flight"
    /\ task' = [task EXCEPT ![fan.idx + 1] = Outcome(@, Raise(CancelledError))]
    /\ UNCHANGED <<max_retries, retry_delay, webhooks, event_type, fan, data,
                   now, nonwebhook>>

----------------------------------------------------------------------------
(* Specifications *)

\* Every combination of the fields notify reads.
WebhookConfigs(id) ==
    {SecretConfig(id, a, ts, k) :
        a \in BOOLEAN, ts \in SUBSET WebhookEventType, k \in Secrets}

\* The state of the extraction rules and of the filter pipeline while only
\* the notifier runs.
NoCall == [op |-> "none", rule |-> 0, text |-> <<>>, html |-> <<>>,
           result |-> [none |-> TRUE, value |-> <<>>], raised |-> "",
           compiled_before |-> FALSE]

NoPipeline == [pc |-> "none", i |-> 0, extracted |-> {}, results |-> <<>>]

\* The adapter, the storage and the background task while unused.
NoAdapter == [owner_identifiers |-> <<>>, extracted_data |-> <<>>,
              given |-> <<>>, result |-> <<>>, first |-> <<>>, calls |-> 0]

NoStore == [files |-> <<>>, bulk |-> [exists |-> FALSE, emails |-> <<>>],
            last |-> [op |-> "none"], saved |-> <<>>, ops |-> 0]

NoBackground == [pc |-> "none", k |-> 0, log |-> <<>>, filter_id |-> None,
                 email_data |-> <<>>]

StorageIdle ==
    /\ adapter = NoAdapter
    /\ store = NoStore
    /\ bg = NoBackground

ExtractionIdle ==
    /\ rules = <<>>
    /\ call = NoCall
    /\ seen = {}
    /\ content_patterns = <<>>
    /\ emails = <<>>
    /\ pf = NoPipeline

\* The data argument of a call and the clock.
Datas == {"email-1", "email-2"}

Clock == {1700000000, 1700000001}

\* The subscriptions of a fan-out: ids are distinct (WebhookConfig.id is a
\* fresh uuid4 per subscription, email_filter.py line 19).
FanoutConfigs(id) ==
    {WebhookConfig(id, TRUE, {ALL}), WebhookConfig(id, FALSE, {ALL}),
     WebhookConfig(id, TRUE, {FILTER_UPDATED})}

WebhookLists ==
    UNION {{ws \in [1..n -> UNION {FanoutConfigs(i) : i \in 1..n}] :
              \A i \in 1..n : ws[i].id = i} : n \in 0..MaxWebhooks}

NoFanout == [pc |-> "none", idx |-> 0, results |-> <<>>]

\* One direct call notify(webhook, event_type, data, retry) on a service
\* whose _max_retries is the default or the value the tests set.
InitNotify ==
    /\ max_retries \in {DefaultMaxRetries, TestMaxRetries}
    /\ retry_delay = DefaultRetryDelay
    /\ webhooks \in {<<w>> : w \in WebhookConfigs(1)}
    /\ event_type \in WebhookEventType
    /\ task \in {<<NewTask(r)>> : r \in BOOLEAN}
    /\ fan = NoFanout
    /\ data \in Datas
    /\ now \in Clock
    /\ ExtractionIdle
    /\ StorageIdle

NextNotify ==
    \/ \E i \in DOMAIN task : Start(i)
    \/ \E i \in DOMAIN task : IssueRequest(i)
    \/ \E i \in DOMAIN task : \E o \in Outcomes : Respond(i, o)
    \/ \E i \in DOMAIN task : WakeUp(i)

\* The event loop runs every runnable coroutine, every request ends in a
\* response or an exception (the client has a timeout), every sleep ends.
SpecNotify == InitNotify /\ [][NextNotify]_vars /\ WF_vars(NextNotify)

\* One call notify_webhooks(webhooks, event_type, data) on a freshly
\* constructed service (main.py, get_webhook_service).
Init ==
    /\ max_retries = DefaultMaxRetries
    /\ retry_delay = DefaultRetryDelay
    /\ webhooks \in WebhookLists
    /\ event_type \in WebhookEventType
    /\ task = <<>>
    /\ fan = [pc |-> "called", idx |-> 0, results |-> <<>>]
    /\ data = "email-1"
    /\ now = 1700000000
    /\ ExtractionIdle
    /\ StorageIdle

Next ==
    \/ CreateTasks
    \/ AwaitTask
    \/ NextNotify

Spec == Init /\ [][Next]_vars

\* The same call inside an enclosing timeout.
NextTimeout ==
    \/ Next
    \/ EnclosingTimeout

SpecTimeout == Init /\ [][NextTimeout]_vars

----------------------------------------------------------------------------
(* Properties of notify, checked under SpecNotify *)

\* The claims' own reading of the preconditions: the subscription is
\* inactive, or the event type is not subscribed and there is no wildcard.
Rejected(w, ev) ==
    \/ ~w.is_active
    \/ (ev \notin w.event_types /\ ALL \notin w.event_types)

\* The number of HTTP attempts the retry flag allows.
AttemptBudget(t) == IF t.retry THEN max_retries + 1 ELSE 1

\* C1: notify on an inactive subscription, or with an event type that is
\* neither subscribed nor covered by the wildcard ALL, returns False without
\* any HTTP request and without any backoff sleep, whatever the retry flag.
C1_RejectedWithoutRequest ==
    \A i \in DOMAIN task :
        (task[i].pc # "created" /\ Rejected(webhooks[i], event_type))
            => /\ task[i].pc = "failed"
               /\ task[i].result = "False"
               /\ task[i].posts = 0
               /\ task[i].responses = 0
               /\ task[i].sleeps = <<>>

C1_Witness ==
    \E i \in DOMAIN task :
        /\ webhooks[i].is_active
        /\ webhooks[i].event_types = {EMAIL_PROCESSED}
        /\ event_type = FILTER_UPDATED
        /\ task[i].retry
        /\ task[i].pc = "failed"

C2_AttemptsBounded ==
    \A i \in DOMAIN task :
        LET t == task[i] IN
        /\ t.posts <= AttemptBudget(t)
        /\ (t.posts > 0 /\ ~t.retry) => t.posts = 1
        /\ (Terminal(t) /\ ~Rejected(webhooks[i], event_type)
                /\ t.last # "2xx")
              => /\ t.pc = "failed"
                 /\ t.result = "False"
                 /\ t.posts = AttemptBudget(t)
                 /\ t.responses = AttemptBudget(t)

C2_Terminates == <>(\A i \in DOMAIN task : Terminal(task[i]))

\* C2: every notify call that passes the preconditions terminates, issues at
\* most max_retries + 1 HTTP attempts with retry enabled and exactly 1 with
\* retry disabled, and when every attempt fails it returns False after
\* exactly that many attempts.
C2_BoundedRetries == []C2_AttemptsBounded /\ C2_Terminates

C2_Witness ==
    \E i \in DOMAIN task :
        /\ max_retries = DefaultMaxRetries
        /\ task[i].retry
        /\ task[i].pc = "failed"
        /\ task[i].posts = 4

\* C3: the backoff sleep after the k-th failed attempt lasts
\* retry_delay * 2^(k-1) (5, 10, 20 with the defaults); there is no sleep
\* before the first attempt, after a successful attempt or after the final
\* failed attempt.
C3_BackoffSchedule ==
    \A i \in DOMAIN task :
        LET t == task[i]
            n == Len(t.sleeps) IN
        /\ \A k \in 1..n : t.sleeps[k] = retry_delay * Pow2(k - 1)
        /\ retry_delay = 5 => t.sleeps = SubSeq(<<5, 10, 20>>, 1, n)
        /\ n <= max_retries
        /\ ~t.retry => n = 0
        /\ t.responses = 0 => n = 0
        /\ (t.responses > 0 /\ ~Terminal(t)) => n = t.responses
        /\ (t.responses > 0 /\ Terminal(t)) => n = t.responses - 1

C3_Witness ==
    \E i \in DOMAIN task :
        /\ task[i].pc = "failed"
        /\ task[i].sleeps = <<5, 10, 20>>

\* C4: with retry enabled, when attempts 1..k-1 fail and attempt k receives a
\* 2xx status, notify returns True after exactly k attempts and k-1 sleeps,
\* and no request follows the 2xx response.
C4_SuccessEndsSequence ==
    \A i \in DOMAIN task :
        LET t == task[i] IN
        /\ t.last = "2xx" =>
              /\ t.pc = "sent"
              /\ t.result = "True"
              /\ t.posts = t.responses
              /\ t.posts <= AttemptBudget(t)
              /\ Len(t.sleeps) = t.posts - 1
              /\ t.wakes = t.posts - 1
        /\ t.result = "True" => t.last = "2xx"

C4_Witness ==
    \E i \in DOMAIN task :
        /\ max_retries = TestMaxRetries
        /\ task[i].retry
        /\ task[i].pc = "sent"
        /\ task[i].result = "True"
        /\ task[i].posts = 2
        /\ task[i].sleeps = <<5>>

\* C7: within one notify call the attempts are strictly ordered: a request is
\* issued only when the outcome of every earlier request is known and the
\* backoff sleep after every earlier failure has completed; at most one
\* request is in flight.
C7_AttemptsOrdered ==
    \A i \in DOMAIN task :
        LET t == task[i] IN
        /\ t.posts - t.responses \in {0, 1}
        /\ t.posts - t.responses = 1 <=> t.pc = "in_flight"
        /\ t.pc = "in_flight" =>
              /\ Len(t.sleeps) = t.responses
              /\ t.wakes = Len(t.sleeps)
        /\ t.wakes <= Len(t.sleeps)
        /\ Len(t.sleeps) - t.wakes = 1 <=> t.pc = "retry_wait"

C7_Witness ==
    \E i \in DOMAIN task :
        /\ task[i].pc = "in_flight"
        /\ task[i].posts = 3
        /\ task[i].wakes = 2

----------------------------------------------------------------------------
(* Properties of notify_webhooks, checked under Spec *)

Ids == {webhooks[i].id : i \in 1..Len(webhooks)}

\* C5: notify_webhooks over N subscriptions returns a map with exactly N
\* entries, one per subscription, whichever deliveries succeed or fail; the
\* empty list gives the empty map.
C5_OneEntryPerSubscription ==
    /\ fan.pc # "raised"
    /\ fan.pc = "returned" =>
          /\ DOMAIN fan.results = Ids
          /\ Cardinality(DOMAIN fan.results) = Len(webhooks)

C5_Witness ==
    /\ fan.pc = "returned"
    /\ Len(webhooks) = 2
    /\ fan.results[webhooks[1].id] = "False"
    /\ fan.results[webhooks[2].id] = "True"
    /\ task[1].posts = 4

C6_AllStartedFirst ==
    /\ (\E i \in DOMAIN task : task[i].pc # "created")
          => Len(task) = Len(webhooks)
    /\ fan.idx > 0 => Len(task) = Len(webhooks)
    /\ \A j \in DOMAIN task :
          ~Terminal(task[j]) =>
              ENABLED (\/ Start(j)
                       \/ IssueRequest(j)
                       \/ \E o \in Outcomes : Respond(j, o)
                       \/ WakeUp(j))

C6_Independent ==
    \A i \in DOMAIN task :
        (i \in DOMAIN task' /\ task'[i] # task[i])
            => \A j \in DOMAIN task \ {i} :
                  j \in DOMAIN task' /\ task'[j] = task[j]

\* C6: every subscription's delivery is started before any is awaited, and a
\* subscription that fails, retries or waits in backoff never aborts or
\* postpones another one's attempts nor changes its outcome.
C6_ConcurrentFanout == []C6_AllStartedFirst /\ [][C6_Independent]_vars

\* Subscription 2 has been delivered while subscription 1 waits in backoff.
C6_Witness ==
    /\ Len(task) = 2
    /\ task[1].pc = "retry_wait"
    /\ task[2].pc = "sent"
    /\ fan.idx = 0

\* C8: notify_webhooks returns its map only after every subscription's
\* sequence is terminal, and each value is that subscription's outcome.
C8_ReturnsTerminalOutcomes ==
    /\ \A i \in 1..fan.idx :
          /\ i \in DOMAIN task
          /\ task[i].pc \in {"sent", "failed"}
          /\ fan.results[webhooks[i].id] =
                 (IF task[i].pc = "sent" THEN "True" ELSE "False")
    /\ fan.pc = "returned" => fan.idx = Len(webhooks)

C8_Witness ==
    /\ fan.pc = "returned"
    /\ Len(webhooks) = 2
    /\ task[1].pc = "sent"
    /\ task[2].pc = "failed"
    /\ task[2].posts = 4

\* C9: a delivery failure (a transport exception or a non-2xx response) is
\* never raised out of notify or notify_webhooks; after the retries it is
\* reported as False for that subscription.
C9_FailuresAreValues ==
    /\ fan.pc # "raised"
    /\ \A i \in DOMAIN task :
          LET t == task[i] IN
          /\ t.pc # "raised"
          /\ (Terminal(t) /\ t.last \in {"failed", "timeout"})
                => t.pc = "failed" /\ t.result = "False"
          /\ (i <= fan.idx /\ t.last \in {"failed", "timeout"})
                => fan.results[webhooks[i].id] = "False"

C9_Witness ==
    /\ fan.pc = "returned"
    /\ \E i \in DOMAIN task :
          /\ task[i].last = "timeout"
          /\ task[i].posts = 4
          /\ fan.results[webhooks[i].id] = "False"

----------------------------------------------------------------------------
(* Timeouts, checked under SpecTimeout *)

\* C10: an attempt aborted by a timeout (per-request or enclosing) counts as
\* exactly one failed attempt: it consumes one retry, the sequence goes on or
\* ends in FAILED by the remaining budget, and the fan-out still yields one
\* entry per subscription.
C10_TimeoutIsOneFailedAttempt ==
    /\ fan.pc # "raised"
    /\ fan.pc = "returned" => DOMAIN fan.results = Ids
    /\ \A i \in DOMAIN task :
          LET t == task[i] IN
          t.last \in {"timeout", "cancelled"} =>
              /\ t.pc \in {"retry_wait", "pending", "in_flight", "failed"}
              /\ t.pc = "failed" =>
                    t.result = "False" /\ t.responses = AttemptBudget(t)
              /\ t.pc # "failed" =>
                    t.attempt = t.responses /\ t.attempt <= max_retries

----------------------------------------------------------------------------
(* Signature and payload, checked under SpecNotify *)

\* C11: the X-Webhook-Signature header of every request is the HMAC-SHA256
\* hex digest of exactly the string sent as the request body, keyed with the
\* subscription's secret, and it is the empty string when the secret is None
\* or empty.
C11_SignatureCoversBody ==
    \A i \in DOMAIN task :
        \A r \in task[i].sent :
            IF webhooks[i].secret \in {None, ""}
            THEN r.signature = <<>>
            ELSE r.signature = HmacSha256(webhooks[i].secret, r.content)

\* Both cases happen: a signed request repeated on a retry, and an unsigned
\* request of a subscription whose secret is the empty string.
C11_Witness ==
    \E i \in DOMAIN task :
        /\ task[i].posts >= 2
        /\ task[i].sent # {}
        /\ webhooks[i].secret = "s3cr3t"
        /\ \A r \in task[i].sent : r.signature # <<>>

\* C12: no request carries "all" as the event of its payload, whatever event
\* type the caller passes.
C12_AllNeverEmitted ==
    \A i \in DOMAIN task :
        \A r \in task[i].sent : EventOf(r.content) # ALL

----------------------------------------------------------------------------
(* Strings: a str is the sequence of its characters; markup is kept as one  *)
(* token per tag.                                                           *)

Uppercase == <<"A", "B", "C", "D", "E", "F", "G", "H", "I", "J", "K", "L", "M",
               "N", "O", "P", "Q", "R", "S", "T", "U", "V", "W", "X", "Y", "Z">>

Lowercase == <<"a", "b", "c", "d", "e", "f", "g", "h", "i", "j", "k", "l", "m",
               "n", "o", "p", "q", "r", "s", "t", "u", "v", "w", "x", "y", "z">>

Digits == {"0", "1", "2", "3", "4", "5", "6", "7", "8", "9"}

Whitespace == {" "}

LowerChar(c) ==
    IF \E k \in DOMAIN Uppercase : Uppercase[k] = c
    THEN Lowercase[CHOOSE k \in DOMAIN Uppercase : Uppercase[k] = c]
    ELSE c

\* str.lower()
Lower(str) == [k \in DOMAIN str |-> LowerChar(str[k])]

\* sub in str
Contains(str, sub) ==
    \E p \in 1..(Len(str) - Len(sub) + 1) :
        SubSeq(str, p, p + Len(sub) - 1) = sub

\* str.strip()
Strip(str) ==
    LET inked == {k \in DOMAIN str : str[k] \notin Whitespace} IN
    IF inked = {} THEN <<>>
    ELSE SubSeq(str, CHOOSE k \in inked : \A j \in inked : k <= j,
                     CHOOSE k \in inked : \A j \in inked : k >= j)

\* An optional str: Python None, or a value.
Absent == [none |-> TRUE, value |-> <<>>]

Value(v) == [none |-> FALSE, value |-> v]

\* Python truth of an optional str: neither None nor empty.
Truthy(opt) == ~opt.none /\ opt.value # <<>>

----------------------------------------------------------------------------
(* Regular expressions: the patterns of the rules, by what re does with them *)

\* The pattern strings.
OrderPattern == "#(\\d+)"

NamedPattern == "#(?P<amount>\\d+)"

PlainPattern == "#\\d+"

StarPattern == "#(\\d*)"

AmountPattern == "DOP\\s+([\\d,.]+)"

InvalidPattern == "#(\\d+"

EmptyPattern == ""

Patterns == {OrderPattern, NamedPattern, PlainPattern, StarPattern,
             AmountPattern, InvalidPattern, EmptyPattern}

\* A compiled pattern of the family  literal [\s+] [(] class quantifier [)] :
\* the literal prefix, whether \s+ follows it, the character class and its
\* least count, and the group around the class: none, unnamed or named.
Compiled(lit, ws, cls, least, group, name) ==
    [lit |-> lit, ws |-> ws, cls |-> cls, least |-> least, group |-> group,
     name |-> name]

\* re.compile raises re.error on this pattern (an unbalanced parenthesis).
CompileRaises(pattern) == pattern = InvalidPattern

\* re.compile(pattern, re.MULTILINE | re.DOTALL); the flags change nothing
\* for patterns without ^, $ and the dot.
ReCompile(pattern) ==
    CASE pattern = OrderPattern ->
            Compiled(<<"#">>, FALSE, Digits, 1, "unnamed", "")
      [] pattern = NamedPattern ->
            Compiled(<<"#">>, FALSE, Digits, 1, "named", "amount")
      [] pattern = PlainPattern ->
            Compiled(<<"#">>, FALSE, Digits, 1, "none", "")
      [] pattern = StarPattern ->
            Compiled(<<"#">>, FALSE, Digits, 0, "unnamed", "")
      [] pattern = AmountPattern ->
            Compiled(<<"D", "O", "P">>, TRUE, Digits \cup {",", "."}, 1,
                     "unnamed", "")
      [] pattern = EmptyPattern ->
            Compiled(<<>>, FALSE, {}, 0, "none", "")

\* The length of the longest run of characters of cls in str from position p.
RECURSIVE Run(_, _, _)
Run(str, p, cls) ==
    IF p <= Len(str) /\ str[p] \in cls THEN 1 + Run(str, p + 1, cls) ELSE 0

\* search found nothing (it returns None).
NoMatch == [found |-> FALSE, group0 |-> <<>>, groups |-> <<>>,
            groupdict |-> [k \in {} |-> <<>>]]

\* The match of the compiled pattern that starts at position p, if any: the
\* quantifiers are greedy and never need to give characters back, because
\* no class overlaps with what follows it.
MatchAt(cp, str, p) ==
    LET q      == p + Len(cp.lit)
        spaces == IF cp.ws THEN Run(str, q, Whitespace) ELSE 0
        g      == q + spaces
        n      == Run(str, g, cp.cls)
        ok     == /\ q - 1 <= Len(str)
                  /\ SubSeq(str, p, q - 1) = cp.lit
                  /\ cp.ws => spaces >= 1
                  /\ n >= cp.least
        inner  == SubSeq(str, g, g + n - 1)
    IN  IF ~ok THEN NoMatch
        ELSE [found  |-> TRUE,
              group0 |-> SubSeq(str, p, g + n - 1),
              groups |-> IF cp.group # "none" THEN <<inner>> ELSE <<>>,
              groupdict |-> IF cp.group = "named"
                            THEN [k \in {cp.name} |-> inner]
                            ELSE [k \in {} |-> <<>>]]

\* compiled.search(str): the match at the leftmost position that has one.
Search(cp, str) ==
    LET starts == {p \in 1..(Len(str) + 1) : MatchAt(cp, str, p).found} IN
    IF starts = {} THEN NoMatch
    ELSE MatchAt(cp, str, CHOOSE p \in starts : \A j \in starts : p <= j)

----------------------------------------------------------------------------
(* HTML: a document is the sequence of its elements in document order, each *)
(* with its tag, class, text and the row that is its parent; the empty      *)
(* document is the empty string.                                            *)

Element(tag, class, text, row) ==
    [tag |-> tag, class |-> class, text |-> text, row |-> row]

\* The document as the str the regular expressions and the content patterns
\* see.
RECURSIVE Raw(_)
Raw(doc) ==
    IF doc = <<>> THEN <<>>
    ELSE LET el == Head(doc) IN
         <<"<" \o el.tag \o " class=" \o el.class \o ">">> \o el.text
            \o <<"</" \o el.tag \o ">">> \o Raw(Tail(doc))

\* A CSS selector of the form tag, .class or tag.class, as its parts.
DefaultLabelSelector == <<"td", ".", "ic-form-label">>

DefaultValueSelector == <<"td", ".", "ic-form-data">>

CellSelector == <<"td">>

SelectorTag(selector) == IF selector[1] = "." THEN "" ELSE selector[1]

SelectorClass(selector) ==
    IF \E k \in DOMAIN selector : selector[k] = "."
    THEN selector[Len(selector)]
    ELSE ""

SelectorMatches(el, selector) ==
    /\ SelectorTag(selector) \in {"", el.tag}
    /\ SelectorClass(selector) \in {"", el.class}

\* soup.select(selector): the positions of the matching elements.
Select(doc, selector) ==
    {k \in DOMAIN doc : SelectorMatches(doc[k], selector)}

\* selector.split(".")[-1]
SplitLast(selector) == selector[Len(selector)]

\* Least member of a non-empty set of positions.
First(positions) == CHOOSE k \in positions : \A j \in positions : k <= j

\* label_cell.find_next(name): the next element in document order with that
\* tag name; 0 when there is none.
FindNext(doc, k, name) ==
    LET later == {j \in DOMAIN doc : j > k /\ doc[j].tag = name} IN
    IF later = {} THEN 0 ELSE First(later)

\* label_cell.parent.select_one(selector): the first element of the label's
\* row that matches; 0 when there is none.
ParentSelectOne(doc, k, selector) ==
    LET inrow == {j \in Select(doc, selector) : doc[j].row = doc[k].row} IN
    IF inrow = {} THEN 0 ELSE First(inrow)

----------------------------------------------------------------------------
(* DataExtractionRule *)

\* A rule as constructed: the private _compiled_pattern is None, written <<>>
\* (<<cp>> once compiled); a table_label of None is written as the empty
\* str, which the code treats alike; label_selector keeps its default.
DataExtractionRule(name, pattern, group_name, content_type, table_label, value_selector) ==
    [name |-> name, pattern |-> pattern, compiled_pattern |-> <<>>,
     group_name |-> group_name, content_type |-> content_type,
     table_label |-> table_label, label_selector |-> DefaultLabelSelector,
     value_selector |-> value_selector]

\* What a call leaves behind: the rule, the returned value, the exception.
Returned(rule, result) == [rule |-> rule, result |-> result, raised |-> ""]

Raised(rule, exc) == [rule |-> rule, result |-> Absent, raised |-> exc]

\* Lines 63-66: compile once; re.compile may raise.
CompilePattern(rule) ==
    IF rule.compiled_pattern # <<>> THEN Returned(rule, Absent)
    ELSE IF CompileRaises(rule.pattern) THEN Raised(rule, "re.error")
    ELSE Returned([rule EXCEPT !.compiled_pattern = <<ReCompile(rule.pattern)>>],
                  Absent)

ResolveUnnamedOnly(group_name, match) ==
    IF group_name \notin {None, ""} /\ group_name \in DOMAIN match.groupdict
    THEN Value(match.groupdict[group_name])
    ELSE IF match.groups # <<>> /\ DOMAIN match.groupdict = {}
    THEN Value(match.groups[1])
    ELSE Value(match.group0)

\* Lines 147-152: the named group, else group 1, else the whole match.
ResolveMatch(group_name, match) ==
    IF group_name \notin {None, ""} /\ group_name \in DOMAIN match.groupdict
    THEN Value(match.groupdict[group_name])
    ELSE IF match.groups # <<>>
    THEN Value(match.groups[1])
    ELSE Value(match.group0)

SearchTextsHtmlFirst(content_type, text, html) ==
    (IF content_type \in {"html", "both"} /\ html # <<>>
     THEN <<Raw(html)>> ELSE <<>>)
    \o (IF content_type \in {"text", "both"} THEN <<text>> ELSE <<>>)

\* Lines 137-141: the contents to search, in order.
SearchTexts(content_type, text, html) ==
    (IF content_type \in {"text", "both"} THEN <<text>> ELSE <<>>)
    \o (IF content_type \in {"html", "both"} /\ html # <<>>
        THEN <<Raw(html)>> ELSE <<>>)

NoMatchIsEmpty == Value(<<>>)

\* Line 154: return None.
NoMatchResult == Absent

\* Lines 144-154: the first content with a match decides.
RECURSIVE SearchLoop(_, _, _)
SearchLoop(cp, group_name, search_texts) ==
    IF search_texts = <<>> THEN NoMatchResult
    ELSE LET match == Search(cp, Head(search_texts)) IN
         IF match.found THEN ResolveMatch(group_name, match)
         ELSE SearchLoop(cp, group_name, Tail(search_texts))

\* Lines 91-95: find_next by the last part of the selector, else the first
\* match within the label's row.
ValueCell(doc, k, value_selector) ==
    LET next == FindNext(doc, k, SplitLast(value_selector)) IN
    IF next # 0 THEN next ELSE ParentSelectOne(doc, k, value_selector)

\* Line 102: the pattern is applied only if it is already compiled.
PatternApplies(rule) == rule.pattern # "" /\ rule.compiled_pattern # <<>>

\* Lines 99-109: the trimmed text of the value cell, or group 1 of the
\* pattern's match in it.
CellValue(rule, text) ==
    LET value == Strip(text) IN
    IF PatternApplies(rule)
    THEN LET match == Search(rule.compiled_pattern[1], value) IN
         IF match.found /\ match.groups # <<>>
         THEN Value(match.groups[1])
         ELSE Value(value)
    ELSE Value(value)

\* Lines 68-114: the first label cell that contains the label and has a
\* value cell decides.
ExtractFromTable(rule, html) ==
    IF html = <<>> \/ rule.table_label = <<>> THEN Absent
    ELSE LET hits == {k \in Select(html, rule.label_selector) :
                        /\ Contains(Lower(html[k].text),
                                    Lower(rule.table_label))
                        /\ ValueCell(html, k, rule.value_selector) # 0}
         IN  IF hits = {} THEN Absent
             ELSE CellValue(rule,
                      html[ValueCell(html, First(hits),
                                     rule.value_selector)].text)

\* Lines 116-154.
ExtractData(rule, text, html) ==
    IF rule.content_type = "table" /\ html # <<>>
    THEN Returned(rule, ExtractFromTable(rule, html))
    ELSE LET compiled == CompilePattern(rule) IN
         IF compiled.raised # "" THEN compiled
         ELSE Returned(compiled.rule,
                  SearchLoop(compiled.rule.compiled_pattern[1],
                             rule.group_name,
                             SearchTexts(rule.content_type, text, html)))

----------------------------------------------------------------------------
(* Calls on one rule *)

MaxCalls == 3

\* The texts: empty, a lone "#", and two order numbers.
Texts == {<<>>, <<"#">>, <<"x", "#", "1", "2", "#", "7">>}

\* The table of the repository's test, reduced to two rows, the second
\* with an order number as its value.
TableHtml ==
    <<Element("td", "ic-form-label", <<"M", "o", "n", "t", "o", ":">>, 1),
      Element("td", "ic-form-data",
              <<" ", "D", "O", "P", " ", "1", "0", ",", "0", "0", "0", ".",
                "0", "0", " ">>, 1),
      Element("td", "ic-form-label", <<"R", "e", "f", ":">>, 2),
      Element("td", "ic-form-data", <<"#", "3", "4">>, 2)>>

Htmls == {<<>>, TableHtml}

GroupNames == {None, "amount", "total"}

TableLabels == {<<>>, <<"m", "o", "n", "t", "o">>, <<"R", "E", "F">>,
                <<"S", "a", "l", "d", "o">>}

\* The rules a caller can construct: any pattern string is accepted.
RegularRules ==
    {DataExtractionRule("field", p, g, ct, <<>>, DefaultValueSelector) :
        p \in Patterns \ {AmountPattern}, g \in GroupNames,
        ct \in {"text", "html", "both"}}

TableRules ==
    {DataExtractionRule("field", p, None, "table", l, vs) :
        p \in {EmptyPattern, AmountPattern, OrderPattern, InvalidPattern},
        l \in TableLabels, vs \in {DefaultValueSelector, CellSelector}}

\* The record of a call: its arguments, its outcome, and whether the rule
\* was compiled when it began.
Call(op, r, text, html, outcome) ==
    [op |-> op, rule |-> r, text |-> text, html |-> html,
     result |-> outcome.result, raised |-> outcome.raised,
     compiled_before |-> rules[r].compiled_pattern # <<>>]

\* Lines 51-61: construction validates no pattern.
Construct ==
    /\ rules = <<>>
    /\ \E rule \in RegularRules \cup TableRules : rules' = <<rule>>
    /\ call' = [NoCall EXCEPT !.op = "construct", !.rule = 1]
    /\ UNCHANGED <<seen, content_patterns, emails, pf, webhook_vars,
                   storage_vars>>

\* rule.extract_data(text, html)
ExtractDataCall ==
    /\ Cardinality(seen) < MaxCalls
    /\ \E r \in DOMAIN rules, text \in Texts, html \in Htmls :
          LET outcome == ExtractData(rules[r], text, html) IN
          /\ rules' = [rules EXCEPT ![r] = outcome.rule]
          /\ call' = Call("extract_data", r, text, html, outcome)
          /\ seen' = seen \cup {call'}
    /\ UNCHANGED <<content_patterns, emails, pf, webhook_vars,
                   storage_vars>>

\* rule.extract_from_table(html)
ExtractFromTableCall ==
    /\ Cardinality(seen) < MaxCalls
    /\ \E r \in DOMAIN rules, html \in Htmls :
          /\ call' = Call("extract_from_table", r, <<>>, html,
                          Returned(rules[r],
                                   ExtractFromTable(rules[r], html)))
          /\ seen' = seen \cup {call'}
    /\ UNCHANGED <<rules, content_patterns, emails, pf, webhook_vars,
                   storage_vars>>

\* The notifier while only rules are used.
WebhookIdle ==
    /\ max_retries = DefaultMaxRetries
    /\ retry_delay = DefaultRetryDelay
    /\ webhooks = <<>>
    /\ event_type = EMAIL_PROCESSED
    /\ task = <<>>
    /\ fan = NoFanout
    /\ data = "email-1"
    /\ now = 1700000000

InitExtract ==
    /\ rules = <<>>
    /\ call = NoCall
    /\ seen = {}
    /\ content_patterns = <<>>
    /\ emails = <<>>
    /\ pf = NoPipeline
    /\ StorageIdle
    /\ WebhookIdle

NextExtract == Construct \/ ExtractDataCall \/ ExtractFromTableCall

SpecExtract == InitExtract /\ [][NextExtract]_vars

----------------------------------------------------------------------------
(* Extraction rules, checked under SpecExtract *)

\* The latest call is a call of op on a rule of the given content types that
\* returned.
ReturnedFrom(ops, content_types) ==
    /\ call.op \in ops
    /\ call.raised = ""
    /\ rules[call.rule].content_type \in content_types

\* What re finds for the latest call's rule in a str.
Found(str) == Search(ReCompile(rules[call.rule].pattern), str)

\* The value the code resolves from a match for the latest call's rule.
Resolved(match) == ResolveMatch(rules[call.rule].group_name, match)

\* C13: for a rule with content_type both, a match in the plain text decides
\* the result whatever the HTML contains; the HTML decides only when the
\* plain text has no match.
C13_TextPrecedence ==
    ReturnedFrom({"extract_data"}, {"both"}) =>
        /\ Found(call.text).found =>
              call.result = Resolved(Found(call.text))
        /\ (~Found(call.text).found /\ Found(Raw(call.html)).found) =>
              call.result = Resolved(Found(Raw(call.html)))

\* Text and HTML both match, with different values, and the text's value is
\* returned.
C13_Witness ==
    /\ ReturnedFrom({"extract_data"}, {"both"})
    /\ rules[call.rule].pattern = OrderPattern
    /\ Found(call.text).found
    /\ Found(Raw(call.html)).found
    /\ Found(Raw(call.html)).groups # Found(call.text).groups
    /\ call.result = Value(<<"1", "2">>)

\* The label of the latest call's rule occurs in a label cell of the HTML.
LabelOccurs ==
    LET rule == rules[call.rule] IN
    /\ rule.table_label # <<>>
    /\ \E k \in Select(call.html, rule.label_selector) :
          Contains(Lower(call.html[k].text), Lower(rule.table_label))

\* C14: when the pattern matches in none of the contents content_type
\* selects, or the label of a table rule occurs in no label cell, the call
\* returns None, never an empty string.
C14_NoMatchIsAbsent ==
    /\ ReturnedFrom({"extract_data"}, {"text"}) =>
          (~Found(call.text).found => call.result = Absent)
    /\ ReturnedFrom({"extract_data"}, {"html"}) =>
          (~Found(Raw(call.html)).found => call.result = Absent)
    /\ ReturnedFrom({"extract_data"}, {"both"}) =>
          ((~Found(call.text).found /\ ~Found(Raw(call.html)).found)
              => call.result = Absent)
    /\ ReturnedFrom({"extract_data", "extract_from_table"}, {"table"}) =>
          (~LabelOccurs => call.result = Absent)

\* A both rule that matches in neither content, and returns None.
C14_Witness ==
    /\ ReturnedFrom({"extract_data"}, {"both"})
    /\ rules[call.rule].pattern = PlainPattern
    /\ call.text = <<"#">>
    /\ call.html = <<>>
    /\ call.result = Absent

\* The match that decides the latest call: the one in the first searched
\* content that has one.
Deciding ==
    LET rule == rules[call.rule]
        hits == SelectSeq(SearchTexts(rule.content_type, call.text, call.html),
                          LAMBDA str : Found(str).found)
    IN  IF hits = <<>> THEN NoMatch ELSE Found(Head(hits))

\* The configured group name is a group of the match.
NamedGroupPresent ==
    /\ rules[call.rule].group_name \notin {None, ""}
    /\ rules[call.rule].group_name \in DOMAIN Deciding.groupdict

\* C16 as stated: on a match the result is the configured named group if
\* present in the match, else the first capture group if the match has an
\* unnamed capture group, else the whole match.
C16_UnnamedGroupOnly ==
    (ReturnedFrom({"extract_data"}, {"text", "html", "both"})
        /\ Deciding.found) =>
        call.result =
            IF NamedGroupPresent
            THEN Value(Deciding.groupdict[rules[call.rule].group_name])
            ELSE IF Deciding.groups # <<>> /\ DOMAIN Deciding.groupdict = {}
            THEN Value(Deciding.groups[1])
            ELSE Value(Deciding.group0)

\* C16, amended: on a match the result is the configured named group if it
\* is a group of the match, else the first capture group if the pattern has
\* any capture group, named or unnamed, else the whole match.
C16_AnyGroup ==
    (ReturnedFrom({"extract_data"}, {"text", "html", "both"})
        /\ Deciding.found) =>
        call.result =
            IF NamedGroupPresent
            THEN Value(Deciding.groupdict[rules[call.rule].group_name])
            ELSE IF Deciding.groups # <<>>
            THEN Value(Deciding.groups[1])
            ELSE Value(Deciding.group0)

\* A pattern whose only group is named, a group name that is not configured
\* or names no group, and the group's value returned.
C16_Witness ==
    /\ ReturnedFrom({"extract_data"}, {"text", "html", "both"})
    /\ rules[call.rule].pattern = NamedPattern
    /\ Deciding.found
    /\ ~NamedGroupPresent
    /\ call.result = Value(Deciding.groups[1])
    /\ call.result # Value(Deciding.group0)

\* C17: over any sequence of calls on one rule instance, two calls with the
\* same arguments return the same result.
C17_SameArgumentsSameResult ==
    \A a, b \in seen :
        (a.op = b.op /\ a.rule = b.rule /\ a.text = b.text /\ a.html = b.html)
            => (a.result = b.result /\ a.raised = b.raised)

\* The value cell the label of the latest call's rule resolves to; 0 if none.
ResolvedCell ==
    LET rule == rules[call.rule]
        hits == {k \in Select(call.html, rule.label_selector) :
                    /\ Contains(Lower(call.html[k].text),
                                Lower(rule.table_label))
                    /\ ValueCell(call.html, k, rule.value_selector) # 0}
    IN  IF call.html = <<>> \/ rule.table_label = <<>> \/ hits = {} THEN 0
        ELSE ValueCell(call.html, First(hits), rule.value_selector)

\* C18: a table rule whose label resolves to a value cell returns the first
\* capture group when its non-empty pattern matches the cell's trimmed text
\* with a group, also on the first extraction of a fresh rule, and the full
\* trimmed text otherwise.
C18_TablePatternApplied ==
    (ReturnedFrom({"extract_data", "extract_from_table"}, {"table"})
        /\ ResolvedCell # 0) =>
        LET rule  == rules[call.rule]
            value == Strip(call.html[ResolvedCell].text)
        IN  IF /\ rule.pattern # ""
               /\ ~CompileRaises(rule.pattern)
               /\ Found(value).found
               /\ Found(value).groups # <<>>
            THEN call.result = Value(Found(value).groups[1])
            ELSE call.result = Value(value)

\* C19: no rule with an invalid pattern exists after construction, and no
\* extraction raises the regex error or runs with an invalid pattern.
C19_InvalidPatternRejected ==
    /\ \A r \in DOMAIN rules : ~CompileRaises(rules[r].pattern)
    /\ call.raised # "re.error"

----------------------------------------------------------------------------
(* GmailService.process_filter *)

\* An email as get_email returns it: the bodies are None or a str.
EmailData(plain_text, html) == [plain_text |-> plain_text, html |-> html]

\* Lines 218-222 and 225-229: the body is truthy and contains the pattern,
\* both lowered.
BodyMatches(body, str, pattern) ==
    Truthy(body) /\ Contains(Lower(str), Lower(pattern))

GateIgnoresHtml(email, patterns) ==
    patterns # <<>> =>
        \E k \in DOMAIN patterns :
            BodyMatches(email.plain_text, email.plain_text.value, patterns[k])

\* Lines 214-234: no content patterns, or one of them in one of the bodies.
GatePasses(email, patterns) ==
    patterns # <<>> =>
        \E k \in DOMAIN patterns :
            \/ BodyMatches(email.plain_text, email.plain_text.value,
                           patterns[k])
            \/ BodyMatches(email.html, Raw(email.html.value), patterns[k])

StoredUnlessNone(extracted) == ~extracted.none

\* Line 242: if extracted.
Stored(extracted) == Truthy(extracted)

\* Line 243: extracted_data[rule.name] = extracted
SetItem(dict, key, value) ==
    [k \in DOMAIN dict \cup {key} |-> IF k = key THEN value ELSE dict[k]]

EmptyDict == [k \in {} |-> <<>>]

\* Lines 237-243: every rule in order on the bodies, None read as "";
\* a rule that raises ends the loop.  Gives the rules as the calls leave
\* them, the mapping, what each rule returned, and the exception.
RECURSIVE ApplyRules(_, _, _, _, _)
ApplyRules(rs, k, email, dict, returned) ==
    IF k > Len(rs)
    THEN [rules |-> rs, extracted_data |-> dict, returned |-> returned,
          raised |-> ""]
    ELSE LET o == ExtractData(rs[k], email.plain_text.value,
                              email.html.value)
         IN  IF o.raised # ""
             THEN [rules |-> rs, extracted_data |-> dict,
                   returned |-> returned, raised |-> o.raised]
             ELSE ApplyRules([rs EXCEPT ![k] = o.rule], k + 1, email,
                             IF Stored(o.result)
                             THEN SetItem(dict, rs[k].name, o.result.value)
                             ELSE dict,
                             Append(returned, o.result))

\* Lines 209-250: one turn of the loop over the messages.
ProcessMessage ==
    /\ pf.pc = "loop"
    /\ pf.i < Len(emails)
    /\ LET j     == pf.i + 1
           email == emails[j]
       IN  IF ~GatePasses(email, content_patterns)
           THEN /\ pf' = [pf EXCEPT !.i = j]
                /\ UNCHANGED rules
           ELSE LET o == ApplyRules(rules, 1, email, EmptyDict, <<>>) IN
                /\ rules' = o.rules
                /\ pf' = IF o.raised # ""
                         THEN [pf EXCEPT !.pc = "raised", !.i = j,
                                         !.extracted = @ \cup {j}]
                         ELSE [pf EXCEPT !.i = j,
                                  !.extracted = @ \cup {j},
                                  !.results = Append(@,
                                      [id |-> j,
                                       extracted_data |-> o.extracted_data,
                                       returned |-> o.returned])]
    /\ UNCHANGED <<call, seen, content_patterns, emails, webhook_vars,
                   storage_vars>>

\* Lines 251-252: return results.
ReturnResults ==
    /\ pf.pc = "loop"
    /\ pf.i = Len(emails)
    /\ pf' = [pf EXCEPT !.pc = "returned"]
    /\ UNCHANGED <<rules, call, seen, content_patterns, emails, webhook_vars,
                   storage_vars>>

MaxEmails == 2

\* Bodies: text only, HTML only, an empty text, and both.
Emails ==
    {EmailData(Value(<<"x", "#", "1", "2", "#", "7">>), Absent),
     EmailData(Absent, Value(TableHtml)),
     EmailData(Value(<<>>), Absent),
     EmailData(Value(<<"#">>), Value(TableHtml))}

ContentPatterns ==
    {<<>>, <<<<"M", "O", "N", "T", "O">>>>, <<<<>>>>,
     <<<<"z", "z">>, <<"#", "1">>>>}

\* The rules of a filter, before names are given.
FilterRules ==
    {DataExtractionRule("", OrderPattern, None, "text", <<>>,
                        DefaultValueSelector),
     DataExtractionRule("", StarPattern, None, "text", <<>>,
                        DefaultValueSelector),
     DataExtractionRule("", NamedPattern, "amount", "both", <<>>,
                        DefaultValueSelector),
     DataExtractionRule("", AmountPattern, None, "table",
                        <<"m", "o", "n", "t", "o">>, DefaultValueSelector),
     DataExtractionRule("", InvalidPattern, None, "html", <<>>,
                        DefaultValueSelector)}

RuleNames == {<<"order", "amount">>, <<"order", "order">>}

InitFilter ==
    /\ rules \in {<<[r1 EXCEPT !.name = names[1]],
                   [r2 EXCEPT !.name = names[2]]>> :
                     r1 \in FilterRules, r2 \in FilterRules,
                     names \in RuleNames}
    /\ call = NoCall
    /\ seen = {}
    /\ content_patterns \in ContentPatterns
    /\ emails \in UNION {[1..n -> Emails] : n \in 1..MaxEmails}
    /\ pf = [NoPipeline EXCEPT !.pc = "loop"]
    /\ StorageIdle
    /\ WebhookIdle

NextFilter == ProcessMessage \/ ReturnResults

SpecFilter == InitFilter /\ [][NextFilter]_vars

----------------------------------------------------------------------------
(* The filter pipeline, checked under SpecFilter *)

\* A rule finds a match in an email: its pattern in a content it searches,
\* or, for a table rule, its label in a label cell that has a value cell.
FoundMatch(rule, email) ==
    LET text == email.plain_text.value
        html == email.html.value
    IN  IF rule.content_type = "table"
        THEN /\ html # <<>>
             /\ rule.table_label # <<>>
             /\ \E k \in Select(html, rule.label_selector) :
                   /\ Contains(Lower(html[k].text), Lower(rule.table_label))
                   /\ ValueCell(html, k, rule.value_selector) # 0
        ELSE LET contents == SearchTexts(rule.content_type, text, html) IN
             \E k \in DOMAIN contents :
                 Search(ReCompile(rule.pattern), contents[k]).found

\* C15 as stated: the mapping of a processed email has a rule's name exactly
\* when that rule found a match in the email, and no key maps to an empty
\* string.
C15_KeyIffMatch ==
    \A e \in DOMAIN pf.results :
        LET entry == pf.results[e] IN
        /\ \A k \in DOMAIN rules :
              rules[k].name \in DOMAIN entry.extracted_data
                  <=> FoundMatch(rules[k], emails[entry.id])
        /\ \A name \in DOMAIN entry.extracted_data :
              entry.extracted_data[name] # <<>>

\* C15, amended: the mapping has a name exactly when a rule of that name
\* returned a non-empty value for the email, and no key maps to an empty
\* string.
C15_KeyIffNonEmptyValue ==
    \A e \in DOMAIN pf.results :
        LET entry == pf.results[e] IN
        /\ \A k \in DOMAIN rules :
              rules[k].name \in DOMAIN entry.extracted_data
                  <=> \E j \in DOMAIN rules :
                         /\ rules[j].name = rules[k].name
                         /\ Truthy(entry.returned[j])
        /\ \A name \in DOMAIN entry.extracted_data :
              entry.extracted_data[name] # <<>>

\* A rule matched with an empty value and its name is not in the mapping,
\* next to a rule whose value is.
C15_Witness ==
    \E e \in DOMAIN pf.results :
        LET entry == pf.results[e] IN
        /\ \E k \in DOMAIN rules :
              /\ FoundMatch(rules[k], emails[entry.id])
              /\ entry.returned[k] = Value(<<>>)
              /\ rules[k].name \notin DOMAIN entry.extracted_data
        /\ DOMAIN entry.extracted_data # {}

\* The emails in the results.
ReturnedIds == {pf.results[e].id : e \in DOMAIN pf.results}

\* Extraction ran for exactly the emails the gate let pass, and only those
\* are returned.
GateDecides(passes(_)) ==
    /\ \A j \in 1..pf.i : j \in pf.extracted <=> passes(emails[j])
    /\ ReturnedIds \subseteq pf.extracted
    /\ pf.pc # "raised" => ReturnedIds = pf.extracted

\* A pattern is a case-insensitive substring of a body that is there.
InBody(body, str, pattern) ==
    ~body.none /\ Contains(Lower(str), Lower(pattern))

\* C20 as stated: an email passes when the filter has no content patterns,
\* and otherwise exactly when a content pattern is a case-insensitive
\* substring of the plain-text body or of the HTML body; emails that do not
\* pass are neither extracted nor returned.
C20_GateIsSubstringTest ==
    GateDecides(LAMBDA email :
        \/ content_patterns = <<>>
        \/ \E k \in DOMAIN content_patterns :
              \/ InBody(email.plain_text, email.plain_text.value,
                        content_patterns[k])
              \/ InBody(email.html, Raw(email.html.value),
                        content_patterns[k]))

\* C20, amended: the body a pattern is looked up in must be non-empty.
C20_GateNeedsNonEmptyBody ==
    GateDecides(LAMBDA email :
        \/ content_patterns = <<>>
        \/ \E k \in DOMAIN content_patterns :
              \/ /\ email.plain_text.value # <<>>
                 /\ InBody(email.plain_text, email.plain_text.value,
                           content_patterns[k])
              \/ /\ email.html.value # <<>>
                 /\ InBody(email.html, Raw(email.html.value),
                           content_patterns[k]))

\* An email with an empty text body is stopped by the empty content pattern,
\* which lets an email with a text pass.
C20_Witness ==
    /\ content_patterns = <<<<>>>>
    /\ \E j \in 1..pf.i :
          /\ emails[j].plain_text = Value(<<>>)
          /\ j \notin pf.extracted
          /\ j \notin ReturnedIds
    /\ ReturnedIds # {}

----------------------------------------------------------------------------
(* GenericTransactionAdapter (src/src/services/filter_service.py) *)

UpperChar(c) ==
    IF \E k \in DOMAIN Lowercase : Lowercase[k] = c
    THEN Uppercase[CHOOSE k \in DOMAIN Lowercase : Lowercase[k] = c]
    ELSE c

\* str.upper()
Upper(str) == [k \in DOMAIN str |-> UpperChar(str[k])]

\* TransactionType
INCOMING == <<"i", "n", "c", "o", "m", "i", "n", "g">>

OUTGOING == <<"o", "u", "t", "g", "o", "i", "n", "g">>

UNKNOWN == <<"u", "n", "k", "n", "o", "w", "n">>

\* Lines 55-63: the fields that may arrive under a fallback_ prefix.
FallbackFields ==
    <<"tipo_transaccion", "origen", "destino", "monto", "impuestos",
      "fecha_hora", "numero_referencia">>

\* Line 64: f"fallback_{field}"
FallbackOf(field) == "fallback_" \o field

\* Line 36: the identifiers are kept in upper case.
GenericTransactionAdapter(owner_identifiers) ==
    [k \in DOMAIN owner_identifiers |-> Upper(owner_identifiers[k])]

\* Line 99: the identifiers of the Banreservas adapter.
BanreservasTransactionAdapter ==
    GenericTransactionAdapter(
        <<<<"S", "T", "A", "R", "L", "I", "N">>,
          <<"G", "I", "L", " ", "C", "R", "U", "Z">>>>)

\* del dict[key]
DelItem(dict, key) == [k \in DOMAIN dict \ {key} |-> dict[k]]

\* dict.get(key, "")
GetOrEmpty(dict, key) == IF key \in DOMAIN dict THEN dict[key] ELSE <<>>

DictAlias(dict) == [same |-> TRUE, items |-> dict]

\* Line 52: extracted_data.copy(): a new mapping with the same items.
DictCopy(dict) == [same |-> FALSE, items |-> dict]

PromoteFallbackAlways(extracted_data, field) ==
    FallbackOf(field) \in DOMAIN extracted_data

\* Line 65: the fallback is promoted only when the canonical key is absent.
PromoteFallback(extracted_data, field) ==
    /\ FallbackOf(field) \in DOMAIN extracted_data
    /\ field \notin DOMAIN extracted_data

\* Lines 55-70: promote each fallback into its absent canonical key, then
\* delete the fallback key.
RECURSIVE Consolidate(_, _, _)
Consolidate(fields, extracted_data, result) ==
    IF fields = <<>> THEN result
    ELSE LET field    == Head(fields)
             promoted == IF PromoteFallback(extracted_data, field)
                         THEN SetItem(result, field,
                                      extracted_data[FallbackOf(field)])
                         ELSE result
         IN  Consolidate(Tail(fields), extracted_data,
                         DelItem(promoted, FallbackOf(field)))

\* any(owner_id in field for owner_id in self.owner_identifiers)
AnyOwnerIn(owner_identifiers, str) ==
    \E k \in DOMAIN owner_identifiers : Contains(str, owner_identifiers[k])

DirectionDestinationFirst(owner_identifiers, origen, destino) ==
    IF AnyOwnerIn(owner_identifiers, destino) THEN INCOMING
    ELSE IF AnyOwnerIn(owner_identifiers, origen) THEN OUTGOING
    ELSE UNKNOWN

\* Lines 81-88: origin first, then destination, else unknown.
Direction(owner_identifiers, origen, destino) ==
    IF AnyOwnerIn(owner_identifiers, origen) THEN OUTGOING
    ELSE IF AnyOwnerIn(owner_identifiers, destino) THEN INCOMING
    ELSE UNKNOWN

MissingFieldsNever(result) == FALSE

\* Line 73: origen or monto is not in the result.
MissingFields(result) ==
    "origen" \notin DOMAIN result \/ "monto" \notin DOMAIN result

\* Lines 52-91: the returned mapping, and the caller's mapping after the
\* call (the writes reach it only if the result is the same object).
Process(owner_identifiers, extracted_data) ==
    LET copy   == DictCopy(extracted_data)
        result == Consolidate(FallbackFields, extracted_data, copy.items)
        final  == IF MissingFields(result) THEN result
                  ELSE SetItem(result, "transaction_type",
                           Direction(owner_identifiers,
                                     Upper(GetOrEmpty(result, "origen")),
                                     Upper(GetOrEmpty(result, "destino"))))
    IN  [result |-> final,
         extracted_data |-> IF copy.same THEN final ELSE extracted_data]

MaxProcessCalls == 2

\* adapter.process(email, extracted_data), on the mapping the caller holds.
AdapterProcess ==
    /\ adapter.calls < MaxProcessCalls
    /\ LET out == Process(adapter.owner_identifiers, adapter.extracted_data) IN
       adapter' = [adapter EXCEPT !.result = out.result,
                                  !.extracted_data = out.extracted_data,
                                  !.first = IF adapter.calls = 0
                                            THEN out.result ELSE @,
                                  !.calls = @ + 1]
    /\ UNCHANGED <<store, bg, rules, call, seen, content_patterns, emails, pf, webhook_vars>>

\* The owner identifiers a caller gives, in any case.
OwnerIdentifiers ==
    {<<>>, <<<<"a", "n", "a">>>>, <<<<"z", "e", "d">>, <<"B", "O">>>>}

\* The values of the fields: two account holders.
Holders == {<<"x", "A", "n", "a">>, <<"B", "o">>}

\* A mapping with the given keys, each with a value of its own choice.
Mappings(keys, values) == UNION {[ks -> values] : ks \in SUBSET keys}

\* The mappings given to process: the party fields and their fallbacks, and
\* the amount and its fallback.
Merge(a, b) ==
    [k \in DOMAIN a \cup DOMAIN b |-> IF k \in DOMAIN a THEN a[k] ELSE b[k]]

ExtractedDatas ==
    {Merge(parties, amounts) :
        parties \in Mappings({"origen", "destino", "fallback_origen"}, Holders),
        amounts \in Mappings({"monto", "fallback_monto"}, {<<"5">>})}

InitAdapter ==
    /\ \E ids \in OwnerIdentifiers, given \in ExtractedDatas :
          adapter = [NoAdapter EXCEPT
                        !.owner_identifiers = GenericTransactionAdapter(ids),
                        !.extracted_data = given,
                        !.given = given]
    /\ store = NoStore
    /\ bg = NoBackground
    /\ ExtractionIdle
    /\ WebhookIdle

NextAdapter == AdapterProcess

SpecAdapter == InitAdapter /\ [][NextAdapter]_vars

----------------------------------------------------------------------------
(* The transaction adapter, checked under SpecAdapter *)

\* An owner identifier is a case-insensitive substring of a field of the
\* result.
OwnerInField(field) ==
    /\ field \in DOMAIN adapter.result
    /\ \E k \in DOMAIN adapter.owner_identifiers :
          Contains(Lower(adapter.result[field]),
                   Lower(adapter.owner_identifiers[k]))

\* C21: with origin and amount present, transaction_type is outgoing if an
\* owner identifier is a case-insensitive substring of the origin, else
\* incoming if one is a substring of the destination, else unknown; the
\* origin is tested first.
C21_DirectionByOwner ==
    (/\ adapter.calls >= 1
     /\ "origen" \in DOMAIN adapter.result
     /\ "monto" \in DOMAIN adapter.result) =>
        /\ "transaction_type" \in DOMAIN adapter.result
        /\ adapter.result["transaction_type"] =
              IF OwnerInField("origen") THEN OUTGOING
              ELSE IF OwnerInField("destino") THEN INCOMING
              ELSE UNKNOWN

\* An identifier given in lower case occurs in both fields, and the result
\* is outgoing.
C21_Witness ==
    /\ adapter.calls >= 1
    /\ "origen" \in DOMAIN adapter.given
    /\ "monto" \in DOMAIN adapter.given
    /\ OwnerInField("origen")
    /\ OwnerInField("destino")
    /\ adapter.result["transaction_type"] = OUTGOING

\* C22 as stated: when origen or monto is absent from the input, the result
\* equals the input and has no transaction_type.
C22_MissingReturnsInput ==
    (/\ adapter.calls >= 1
     /\ \/ "origen" \notin DOMAIN adapter.given
        \/ "monto" \notin DOMAIN adapter.given) =>
        /\ adapter.result = adapter.given
        /\ "transaction_type" \notin DOMAIN adapter.result

\* The fields of the input, each under its canonical key: its own value, or
\* the value of its fallback key.
Canonical(given) ==
    LET fields == {FallbackFields[k] : k \in DOMAIN FallbackFields}
        other  == DOMAIN given \ {FallbackOf(f) : f \in fields}
        moved  == {f \in fields : FallbackOf(f) \in DOMAIN given}
    IN  [k \in other \cup moved |->
            IF k \in DOMAIN given THEN given[k] ELSE given[FallbackOf(k)]]

\* C22, amended: when origen or monto is absent from the input under both
\* its own key and its fallback key, the result is the input with its
\* fallback keys promoted and removed, without transaction_type; it equals
\* the input when the input has no fallback key.
C22_MissingReturnsConsolidated ==
    (/\ adapter.calls >= 1
     /\ \/ {"origen", "fallback_origen"} \cap DOMAIN adapter.given = {}
        \/ {"monto", "fallback_monto"} \cap DOMAIN adapter.given = {}) =>
        /\ adapter.result = Canonical(adapter.given)
        /\ "transaction_type" \notin DOMAIN adapter.result
        /\ DOMAIN Canonical(adapter.given) = DOMAIN adapter.given
              => adapter.result = adapter.given

\* An input with nothing but a fallback origin: it is promoted, the amount
\* is missing, and no transaction_type is added.
C22_Witness ==
    /\ adapter.calls >= 1
    /\ DOMAIN adapter.given = {"fallback_origen"}
    /\ DOMAIN adapter.result = {"origen"}
    /\ adapter.result["origen"] = adapter.given["fallback_origen"]

\* C23: process never modifies the mapping passed to it, in any branch, and
\* a second call on the same input returns an equal result.
C23_InputUntouched ==
    /\ adapter.calls >= 1 => adapter.extracted_data = adapter.given
    /\ adapter.calls >= 2 => adapter.result = adapter.first

\* Two calls on an input with a promoted fallback and a computed direction.
C23_Witness ==
    /\ adapter.calls = 2
    /\ "fallback_origen" \in DOMAIN adapter.given
    /\ "origen" \notin DOMAIN adapter.given
    /\ "transaction_type" \in DOMAIN adapter.result
    /\ adapter.result # adapter.given

\* C30: for every field that may arrive under a fallback_ prefix the result
\* has no fallback key; the canonical key holds the input's canonical value
\* if there was one, else the fallback value if there was one, else it is
\* absent.
C30_CanonicalWins ==
    adapter.calls >= 1 =>
        \A k \in DOMAIN FallbackFields :
            LET field    == FallbackFields[k]
                fallback == FallbackOf(field)
            IN  /\ fallback \notin DOMAIN adapter.result
                /\ IF field \in DOMAIN adapter.given
                   THEN /\ field \in DOMAIN adapter.result
                        /\ adapter.result[field] = adapter.given[field]
                   ELSE IF fallback \in DOMAIN adapter.given
                   THEN /\ field \in DOMAIN adapter.result
                        /\ adapter.result[field] = adapter.given[fallback]
                   ELSE field \notin DOMAIN adapter.result

\* Canonical and fallback value both present and different: the canonical
\* one is kept.
C30_Witness ==
    /\ adapter.calls >= 1
    /\ "origen" \in DOMAIN adapter.given
    /\ "fallback_origen" \in DOMAIN adapter.given
    /\ adapter.given["origen"] # adapter.given["fallback_origen"]
    /\ adapter.result["origen"] = adapter.given["origen"]
    /\ "fallback_origen" \notin DOMAIN adapter.result

----------------------------------------------------------------------------
(* JsonEmailStorage (src/src/storage/json_storage.py) *)

\* An EmailData, reduced to the fields the storage and the adapters read.
StoredEmail(id, filter_id, subject, extracted_data) ==
    [id |-> id, filter_id |-> filter_id, subject |-> subject,
     extracted_data |-> extracted_data]

\* Lines 59-67 and 80: _to_dict and json.dump: the members in field order.
ToJson(email) ==
    <<"json", <<"id", email.id>>, <<"filter_id", email.filter_id>>,
      <<"subject", email.subject>>,
      <<"extracted_data", email.extracted_data>>>>

\* Lines 121-122: json.load and EmailData.parse_obj.
ParseObj(json) ==
    [id |-> json[2][2], filter_id |-> json[3][2], subject |-> json[4][2],
     extracted_data |-> json[5][2]]

\* email.get("id") and email.get("filter_id") on a loaded dictionary.
JsonId(json) == json[2][2]

JsonFilterId(json) == json[3][2]

\* filter_service.py lines 103-105: the registry of adapters by filter id.
FILTER_ADAPTERS ==
    [k \in {"banreservas_transacciones"} |-> BanreservasTransactionAdapter]

\* Lines 46-57: the registered adapter, if any, replaces extracted_data.
ApplyFilterAdapters(email) ==
    IF /\ email.filter_id \notin {None, ""}
       /\ email.filter_id \in DOMAIN FILTER_ADAPTERS
    THEN [email EXCEPT !.extracted_data =
             Process(FILTER_ADAPTERS[email.filter_id], @).result]
    ELSE email

\* The outcome of an optional lookup: None, or a record.
NotFound == [found |-> FALSE, email |-> <<>>]

FoundEmail(email) == [found |-> TRUE, email |-> email]

\* The positions of the entries of a loaded bulk list with the given id.
BulkPositions(entries, id) == {k \in DOMAIN entries : JsonId(entries[k]) = id}

\* Lines 84-105: replace the first entry with the id, or append.
BulkUpsert(entries, json) ==
    LET at == BulkPositions(entries, JsonId(json)) IN
    IF at = {} THEN Append(entries, json)
    ELSE [entries EXCEPT ![First(at)] = json]

\* Lines 69-112: the files after save_email; the bulk file is created when
\* it is first written.
SaveFiles(files, bulk, email, use_chunks) ==
    LET json == ToJson(ApplyFilterAdapters(email)) IN
    IF use_chunks
    THEN [files |-> [k \in DOMAIN files \cup {email.id} |->
                        IF k = email.id THEN json ELSE files[k]],
          bulk |-> bulk]
    ELSE [files |-> files,
          bulk |-> [exists |-> TRUE,
                    emails |-> BulkUpsert(IF bulk.exists THEN bulk.emails
                                           ELSE <<>>, json)]]

\* Lines 114-140: the individual file first, then the bulk file.
GetEmail(files, bulk, id) ==
    IF id \in DOMAIN files THEN FoundEmail(ParseObj(files[id]))
    ELSE IF bulk.exists /\ BulkPositions(bulk.emails, id) # {}
    THEN FoundEmail(ParseObj(bulk.emails[First(BulkPositions(bulk.emails, id))]))
    ELSE NotFound

\* Lines 149-163: the individual files in the order os.listdir gives them;
\* the limit is tested after each file.
RECURSIVE ScanFiles(_, _, _, _, _)
ScanFiles(files, listing, filter_id, limit, found) ==
    IF listing = <<>> THEN found
    ELSE LET json == files[Head(listing)]
             now_found == IF JsonFilterId(json) = filter_id
                          THEN Append(found, ParseObj(json))
                          ELSE found
         IN  IF Len(now_found) >= limit THEN now_found
             ELSE ScanFiles(files, Tail(listing), filter_id, limit, now_found)

\* Lines 171-180: the bulk entries of the filter that are not yet in the
\* result; the limit is tested after each addition.
RECURSIVE ScanBulk(_, _, _, _)
ScanBulk(entries, filter_id, limit, found) ==
    IF entries = <<>> THEN found
    ELSE LET json == Head(entries)
             adds == /\ JsonFilterId(json) = filter_id
                     /\ \A k \in DOMAIN found : found[k].id # JsonId(json)
             now_found == IF adds THEN Append(found, ParseObj(json))
                          ELSE found
         IN  IF adds /\ Len(now_found) >= limit THEN now_found
             ELSE ScanBulk(Tail(entries), filter_id, limit, now_found)

\* Lines 142-187.
GetEmailsByFilter(files, bulk, listing, filter_id, limit) ==
    LET found == ScanFiles(files, listing, filter_id, limit, <<>>) IN
    IF Len(found) < limit /\ bulk.exists
    THEN ScanBulk(bulk.emails, filter_id, limit, found)
    ELSE found

\* Lines 189-220: the files after delete_email, and its return value.
DeleteFiles(files, bulk, id) ==
    LET kept == IF bulk.exists
                THEN SelectSeq(bulk.emails, LAMBDA json : JsonId(json) # id)
                ELSE <<>>
    IN  [files |-> [k \in DOMAIN files \ {id} |-> files[k]],
         bulk |-> IF bulk.exists THEN [bulk EXCEPT !.emails = kept] ELSE bulk,
         success |-> \/ id \in DOMAIN files
                     \/ bulk.exists /\ Len(kept) < Len(bulk.emails)]

\* The orders os.listdir may give the individual files in.
Listings(files) ==
    {listing \in [1..Cardinality(DOMAIN files) -> DOMAIN files] :
        \A i, j \in DOMAIN listing : i # j => listing[i] # listing[j]}

MaxOps == 4

EmailIds == {"m1", "m2"}

FilterIds == {"f1", "f2"}

Limits == {0, 1, 2}

\* The emails given to save_email.
StoredEmails ==
    {StoredEmail(id, f, subject, <<>>) :
        id \in EmailIds, f \in FilterIds, subject \in {"first", "second"}}

\* One more call on the storage is allowed.
MoreOps == store.ops < MaxOps

\* storage.save_email(email_data, use_chunks)
SaveEmail ==
    /\ MoreOps
    /\ \E email \in StoredEmails, use_chunks \in BOOLEAN :
          LET after == SaveFiles(store.files, store.bulk, email, use_chunks) IN
          store' = [store EXCEPT
                       !.files = after.files,
                       !.bulk = after.bulk,
                       !.saved = [k \in DOMAIN @ \cup {email.id} |->
                                     IF k = email.id
                                     THEN ApplyFilterAdapters(email)
                                     ELSE @[k]],
                       !.last = [op |-> "save_email", id |-> email.id,
                                 use_chunks |-> use_chunks, result |-> TRUE],
                       !.ops = @ + 1]
    /\ UNCHANGED <<adapter, bg, rules, call, seen, content_patterns, emails, pf, webhook_vars>>

\* storage.get_email(email_id)
GetEmailCall ==
    /\ MoreOps
    /\ \E id \in EmailIds :
          store' = [store EXCEPT
                       !.last = [op |-> "get_email", id |-> id,
                                 result |-> GetEmail(store.files, store.bulk,
                                                     id)],
                       !.ops = @ + 1]
    /\ UNCHANGED <<adapter, bg, rules, call, seen, content_patterns, emails, pf, webhook_vars>>

\* storage.get_emails_by_filter(filter_id, limit)
GetEmailsByFilterCall ==
    /\ MoreOps
    /\ \E f \in FilterIds, limit \in Limits, listing \in Listings(store.files) :
          store' = [store EXCEPT
                       !.last = [op |-> "get_emails_by_filter",
                                 filter_id |-> f, limit |-> limit,
                                 result |-> GetEmailsByFilter(
                                     store.files, store.bulk, listing, f,
                                     limit)],
                       !.ops = @ + 1]
    /\ UNCHANGED <<adapter, bg, rules, call, seen, content_patterns, emails, pf, webhook_vars>>

\* storage.delete_email(email_id)
DeleteEmail ==
    /\ MoreOps
    /\ \E id \in EmailIds :
          LET after == DeleteFiles(store.files, store.bulk, id) IN
          store' = [store EXCEPT
                       !.files = after.files,
                       !.bulk = after.bulk,
                       !.saved = [k \in DOMAIN @ \ {id} |-> @[k]],
                       !.last = [op |-> "delete_email", id |-> id,
                                 result |-> after.success,
                                 existed |-> id \in DOMAIN store.saved],
                       !.ops = @ + 1]
    /\ UNCHANGED <<adapter, bg, rules, call, seen, content_patterns, emails, pf, webhook_vars>>

InitStorage ==
    /\ store = NoStore
    /\ adapter = NoAdapter
    /\ bg = NoBackground
    /\ ExtractionIdle
    /\ WebhookIdle

NextStorage ==
    SaveEmail \/ GetEmailCall \/ GetEmailsByFilterCall \/ DeleteEmail

SpecStorage == InitStorage /\ [][NextStorage]_vars

----------------------------------------------------------------------------
(* The storage claims *)

\* The record most recently saved under an id and not deleted since.
LastSaved(id) ==
    IF id \in DOMAIN store.saved THEN FoundEmail(store.saved[id]) ELSE NotFound

\* C25: after any sequence of save_email, in either mode, and delete_email,
\* get_email(id) returns the record most recently saved under the id when it
\* was not deleted since and None otherwise, and delete_email returns true
\* exactly when a stored record with the id existed.
C25_GetReturnsLastSaved ==
    /\ store.last.op = "get_email"
          => store.last.result = LastSaved(store.last.id)
    /\ store.last.op = "delete_email"
          => store.last.result = store.last.existed

\* The emails the storage holds, in its individual files and its bulk file.
StoredNow ==
    {ParseObj(store.files[id]) : id \in DOMAIN store.files}
        \cup {ParseObj(store.bulk.emails[k]) : k \in DOMAIN store.bulk.emails}

\* C26: get_emails_by_filter(filter_id, limit) returns only stored emails of
\* the filter, each at most once, and never more than limit of them, for
\* every limit >= 0.
C26_AtMostLimit ==
    store.last.op = "get_emails_by_filter" =>
        LET result == store.last.result IN
        /\ \A k \in DOMAIN result :
              /\ result[k] \in StoredNow
              /\ result[k].filter_id = store.last.filter_id
        /\ \A i, j \in DOMAIN result : i # j => result[i].id # result[j].id
        /\ Len(result) <= store.last.limit

----------------------------------------------------------------------------
(* process_filter_background (src/src/api/main.py), the pipeline *)

\* The ids of the messages search_emails returns, in order.
MessageIds == <<"m1", "m2", "m3", "m4">>

\* gmail_service.py lines 246-249: the email_data of an entry of the results,
\* with its mapping and the id of the filter.
ResultEmail(entry, filter_id) ==
    StoredEmail(MessageIds[entry.id], filter_id, "subject",
                entry.extracted_data)

CallerSeesOriginal(email) == email

\* json_storage.py lines 54-55 and 57: the adapter's mapping is assigned to
\* the caller's email_data, which save_email returns.
CallerSees(email) == ApplyFilterAdapters(email)

\* webhook_service.py line 89: data.model_dump()
ModelDump(email) ==
    <<"dict", <<"id", email.id>>, <<"filter_id", email.filter_id>>,
      <<"subject", email.subject>>,
      <<"extracted_data", email.extracted_data>>>>

\* webhook_service.py lines 72-92: the body of the request notify prepares
\* for a subscription that passes its two tests.
NotifyBody(ev, ts, email) == JsonDumps(Payload(ev, ts, ModelDump(email)))

\* webhook_service.py notify_webhooks: the bodies sent, by position of the
\* subscription in the list.
NotifyWebhooks(ws, ev, ts, email) ==
    [w \in {i \in DOMAIN ws : PreconditionsPass(ws[i], ev)} |->
        NotifyBody(ev, ts, email)]

\* What a receiver reads as the data member of a body.
DataOf(body) == body[4][2]

\* An entry of the record of the task's calls.
Event(ev, id, record, sent) ==
    [ev |-> ev, id |-> id, record |-> record, sent |-> sent]

\* main.py lines 178-179: process_filter raised; the task logs and ends.
CatchError ==
    /\ bg.pc = "running"
    /\ pf.pc = "raised"
    /\ bg' = [bg EXCEPT !.pc = "failed"]
    /\ UNCHANGED <<adapter, store, rules, call, seen, content_patterns, emails, pf, webhook_vars>>

\* main.py lines 162-167: save_email on the next email of the results; the
\* task goes on to notify when the filter has webhooks.
SaveStep ==
    /\ bg.pc = "running"
    /\ pf.pc = "returned"
    /\ bg.k < Len(pf.results)
    /\ LET email == ResultEmail(pf.results[bg.k + 1], bg.filter_id)
           after == SaveFiles(store.files, store.bulk, email, TRUE)
       IN  /\ store' = [store EXCEPT
                           !.files = after.files,
                           !.bulk = after.bulk,
                           !.saved = [k \in DOMAIN @ \cup {email.id} |->
                                         IF k = email.id
                                         THEN ApplyFilterAdapters(email)
                                         ELSE @[k]],
                           !.last = [op |-> "save_email", id |-> email.id,
                                     use_chunks |-> TRUE, result |-> TRUE],
                           !.ops = @ + 1]
           /\ bg' = [bg EXCEPT
                        !.pc = IF webhooks # <<>> THEN "saved" ELSE "running",
                        !.k = IF webhooks # <<>> THEN @ ELSE @ + 1,
                        !.email_data = CallerSees(email),
                        !.log = Append(@, Event("save", email.id,
                                    ParseObj(after.files[email.id]), <<>>))]
    /\ UNCHANGED <<adapter, rules, call, seen, content_patterns, emails, pf, webhook_vars>>

\* main.py lines 167-175: notify_webhooks with the email_data just saved.
NotifyStep ==
    /\ bg.pc = "saved"
    /\ bg' = [bg EXCEPT
                 !.pc = "running",
                 !.k = @ + 1,
                 !.log = Append(@, Event("notify", bg.email_data.id,
                             bg.email_data,
                             NotifyWebhooks(webhooks, EMAIL_PROCESSED, now,
                                            bg.email_data)))]
    /\ UNCHANGED <<adapter, store, rules, call, seen, content_patterns, emails, pf, webhook_vars>>

\* main.py line 177: every email of the results was handled.
Finish ==
    /\ bg.pc = "running"
    /\ pf.pc = "returned"
    /\ bg.k = Len(pf.results)
    /\ bg' = [bg EXCEPT !.pc = "done"]
    /\ UNCHANGED <<adapter, store, rules, call, seen, content_patterns, emails, pf, webhook_vars>>

\* A transfer out of the owner's account, and one into it.
TransferHtml ==
    <<Element("td", "ic-form-label", <<"O", "r", "i", "g", "e", "n", ":">>, 1),
      Element("td", "ic-form-data", <<"S", "t", "a", "r", "l", "i", "n">>, 1),
      Element("td", "ic-form-label",
              <<"D", "e", "s", "t", "i", "n", "o", ":">>, 2),
      Element("td", "ic-form-data", <<"R", "o", "s", "a">>, 2),
      Element("td", "ic-form-label", <<"M", "o", "n", "t", "o", ":">>, 3),
      Element("td", "ic-form-data", <<"D", "O", "P", " ", "1", "0">>, 3)>>

DepositHtml ==
    <<Element("td", "ic-form-label", <<"O", "r", "i", "g", "e", "n", ":">>, 1),
      Element("td", "ic-form-data", <<"R", "o", "s", "a">>, 1),
      Element("td", "ic-form-label",
              <<"D", "e", "s", "t", "i", "n", "o", ":">>, 2),
      Element("td", "ic-form-data", <<"S", "t", "a", "r", "l", "i", "n">>, 2),
      Element("td", "ic-form-label", <<"M", "o", "n", "t", "o", ":">>, 3),
      Element("td", "ic-form-data", <<"D", "O", "P", " ", "7">>, 3)>>

PipelineEmails ==
    {EmailData(Absent, Value(TransferHtml)),
     EmailData(Value(<<"#", "1", "2">>), Value(DepositHtml)),
     EmailData(Value(<<"x", "#", "7">>), Absent)}

TableRule(name, label) ==
    DataExtractionRule(name, AmountPattern, None, "table", label,
                       DefaultValueSelector)

\* The extraction rules of a filter: the transaction fields, with and
\* without a rule whose pattern does not compile.
PipelineRules ==
    {<<TableRule("origen", <<"o", "r", "i", "g", "e", "n">>),
       TableRule("destino", <<"d", "e", "s", "t", "i", "n", "o">>),
       TableRule("monto", <<"m", "o", "n", "t", "o">>)>>,
     <<TableRule("origen", <<"o", "r", "i", "g", "e", "n">>),
       DataExtractionRule("monto", OrderPattern, None, "text", <<>>,
                          DefaultValueSelector)>>,
     <<TableRule("fallback_origen", <<"d", "e", "s", "t", "i", "n", "o">>),
       TableRule("monto", <<"m", "o", "n", "t", "o">>)>>,
     <<TableRule("origen", <<"o", "r", "i", "g", "e", "n">>),
       DataExtractionRule("ref", InvalidPattern, None, "text", <<>>,
                          DefaultValueSelector),
       TableRule("monto", <<"m", "o", "n", "t", "o">>)>>}

PipelineFilterIds == {"banreservas_transacciones", "f1"}

\* filter_obj.webhooks: none, one subscriber, or two next to a subscription
\* of another event and an inactive one.
PipelineWebhooks ==
    {<<>>, <<WebhookConfig(1, TRUE, {EMAIL_PROCESSED})>>,
     <<WebhookConfig(1, TRUE, {ALL}), WebhookConfig(2, TRUE, {FILTER_UPDATED}),
       WebhookConfig(3, FALSE, {ALL}),
       SecretConfig(4, TRUE, {EMAIL_PROCESSED}, "s3cr3t")>>}

InitPipeline ==
    /\ rules \in PipelineRules
    /\ call = NoCall
    /\ seen = {}
    /\ content_patterns \in {<<>>, <<<<"R", "O", "S", "A">>>>}
    /\ emails \in UNION {[1..n -> PipelineEmails] : n \in 1..MaxEmails}
    /\ pf = [NoPipeline EXCEPT !.pc = "loop"]
    /\ adapter = NoAdapter
    /\ store = NoStore
    /\ \E f \in PipelineFilterIds :
          bg = [NoBackground EXCEPT !.pc = "running", !.filter_id = f]
    /\ max_retries = DefaultMaxRetries
    /\ retry_delay = DefaultRetryDelay
    /\ webhooks \in PipelineWebhooks
    /\ event_type = EMAIL_PROCESSED
    /\ task = <<>>
    /\ fan = NoFanout
    /\ data = "email-1"
    /\ now \in Clock

NextPipeline ==
    \/ ProcessMessage
    \/ ReturnResults
    \/ CatchError
    \/ SaveStep
    \/ NotifyStep
    \/ Finish

SpecPipeline == InitPipeline /\ [][NextPipeline]_vars

----------------------------------------------------------------------------
(* The pipeline claims, checked under SpecPipeline *)

\* The background task ended.
Ended == bg.pc \in {"done", "failed"}

\* A rule returns a value for an email without raising.
Extracts(rule, email) ==
    LET o == ExtractData(rule, email.plain_text.value, email.html.value) IN
    o.raised = "" /\ Truthy(o.result)

\* C24: a rule that raises while extracting from an email prevents neither
\* the other rules from running nor the matched emails from being processed
\* and saved: when the task has ended every email that passed the gate is in
\* the storage, with the values of the rules that did not raise.
C24_FailuresAreLocal ==
    Ended =>
        \A j \in DOMAIN emails :
            GatePasses(emails[j], content_patterns) =>
                /\ MessageIds[j] \in DOMAIN store.files
                /\ \A k \in DOMAIN rules :
                      Extracts(rules[k], emails[j]) =>
                          \E e \in DOMAIN pf.results :
                              /\ pf.results[e].id = j
                              /\ rules[k].name
                                    \in DOMAIN pf.results[e].extracted_data

\* The mapping the adapter registered for the filter makes of a mapping;
\* the mapping itself when none is registered.
Enriched(filter_id, extracted_data) ==
    IF filter_id \in DOMAIN FILTER_ADAPTERS
    THEN Process(FILTER_ADAPTERS[filter_id], extracted_data).result
    ELSE extracted_data

\* The entry of the results for a message id.
ResultOf(id) ==
    pf.results[CHOOSE e \in DOMAIN pf.results :
                   MessageIds[pf.results[e].id] = id]

\* C27: for each email that passes the filter the steps happen in order:
\* extraction produces the mapping, the registered adapter enriches it, the
\* enriched record is saved, and only then are the webhooks notified; the
\* payload sent to every subscriber is the record that was saved.
C27_PipelineOrder ==
    \A p \in DOMAIN bg.log :
        LET e == bg.log[p] IN
        /\ pf.pc = "returned"
        /\ e.ev = "save" =>
              /\ e.record.extracted_data =
                    Enriched(bg.filter_id, ResultOf(e.id).extracted_data)
              /\ e.id \in DOMAIN store.files
        /\ e.ev = "notify" =>
              /\ p > 1
              /\ bg.log[p - 1].ev = "save"
              /\ bg.log[p - 1].id = e.id
              /\ \A w \in DOMAIN e.sent :
                    /\ DataOf(e.sent[w]) = ModelDump(bg.log[p - 1].record)
                    /\ DataOf(e.sent[w])
                          = ModelDump(ParseObj(store.files[e.id]))

\* Two subscribers were sent an email whose mapping the adapter gave a
\* direction, after it was saved.
C27_Witness ==
    \E p \in DOMAIN bg.log :
        /\ bg.log[p].ev = "notify"
        /\ Cardinality(DOMAIN bg.log[p].sent) = 2
        /\ "transaction_type" \in DOMAIN bg.log[p].record.extracted_data
        /\ "transaction_type" \notin DOMAIN ResultOf(bg.log[p].id).extracted_data

----------------------------------------------------------------------------
(* extract_from_table on documents whose rows are not label/value pairs *)

\* A cell of another class stands between the label and its value cell.
MixedHtml ==
    <<Element("td", "ic-form-label", <<"M", "o", "n", "t", "o", ":">>, 1),
      Element("td", "other", <<"n", "/", "a">>, 1),
      Element("td", "ic-form-data", <<" ", "D", "O", "P", " ", "5", " ">>, 1)>>

\* The first row has the label and no value cell; a later row has both.
OrphanHtml ==
    <<Element("td", "ic-form-label", <<"M", "o", "n", "t", "o", ":">>, 1),
      Element("td", "ic-form-label",
              <<"M", "o", "n", "t", "o", " ", "n", "e", "t", "o", ":">>, 2),
      Element("td", "ic-form-data", <<"D", "O", "P", " ", "9">>, 2)>>

TableDocuments == {TableHtml, MixedHtml, OrphanHtml}

\* Table rules by label, value selector and pattern.
DocumentRules ==
    {DataExtractionRule("field", p, None, "table", l, vs) :
        p \in {EmptyPattern, AmountPattern},
        l \in {<<"m", "o", "n", "t", "o">>, <<"R", "E", "F">>,
               <<"S", "a", "l", "d", "o">>},
        vs \in {DefaultValueSelector, CellSelector}}

\* rule.extract_from_table(html) on one of the documents.
ExtractFromDocument ==
    /\ Cardinality(seen) < MaxCalls
    /\ \E r \in DOMAIN rules, html \in TableDocuments :
          /\ call' = Call("extract_from_table", r, <<>>, html,
                          Returned(rules[r],
                                   ExtractFromTable(rules[r], html)))
          /\ seen' = seen \cup {call'}
    /\ UNCHANGED <<rules, content_patterns, emails, pf, webhook_vars, storage_vars>>

InitTable ==
    /\ \E rule \in DocumentRules : rules = <<rule>>
    /\ call = NoCall
    /\ seen = {}
    /\ content_patterns = <<>>
    /\ emails = <<>>
    /\ pf = NoPipeline
    /\ StorageIdle
    /\ WebhookIdle

NextTable == ExtractFromDocument

SpecTable == InitTable /\ [][NextTable]_vars

----------------------------------------------------------------------------
(* The table claims, checked under SpecTable *)

\* The label cells of the latest call's HTML that contain the rule's label.
MatchingLabels ==
    LET rule == rules[call.rule] IN
    {k \in Select(call.html, rule.label_selector) :
        Contains(Lower(call.html[k].text), Lower(rule.table_label))}

\* The nearest element after a label cell with the tag of the value
\* selector, else the first match of the whole selector in the label's row.
NearestByTag(doc, k, value_selector) ==
    LET next == FindNext(doc, k, SelectorTag(value_selector)) IN
    IF next # 0 THEN next ELSE ParentSelectOne(doc, k, value_selector)

\* C28: the value cell paired with a label cell is the nearest element that
\* follows it in document order with the tag of the value-cell selector
\* (td for td.ic-form-data); only when there is none is the label cell's
\* parent searched with the full selector.
C28_NearestFollowingTag ==
    (ReturnedFrom({"extract_from_table"}, {"table"}) /\ MatchingLabels # {})
        =>
        LET rule == rules[call.rule]
            cell == NearestByTag(call.html, First(MatchingLabels),
                                 rule.value_selector)
        IN  /\ \A k \in MatchingLabels :
                  ValueCell(call.html, k, rule.value_selector)
                      = NearestByTag(call.html, k, rule.value_selector)
            /\ cell # 0 =>
                  call.result = CellValue(rule, call.html[cell].text)

\* C29: the first label cell in document order that contains the label
\* decides: the result comes from its value cell, later matching label cells
\* are never used, and the result is absent when that cell has no value cell
\* or no label cell matches.
C29_FirstLabelDecides ==
    ReturnedFrom({"extract_from_table"}, {"table"}) =>
        LET rule == rules[call.rule] IN
        IF MatchingLabels = {} THEN call.result = Absent
        ELSE LET cell == ValueCell(call.html, First(MatchingLabels),
                                   rule.value_selector)
             IN  IF cell = 0 THEN call.result = Absent
                 ELSE call.result = CellValue(rule, call.html[cell].text)

====
